---- MODULE Spec2Model ----
(***************************************************************************)
(* Model of ERA5HealpixPipeline (src/data_access/era5-healpix-pipeline.py). *)
(*                                                                         *)
(* Calendar dates are day numbers (date + timedelta(days=1) is d + 1).     *)
(* The output directory self.data_dir is a function from file names to     *)
(* entries (absent, regular file with a content tag, directory).  The      *)
(* external client, the clock and the removal of the temporary directory   *)
(* are the environment: their outcomes are chosen nondeterministically.    *)
(* tempfile.mkdtemp and shutil.move are taken to succeed.                  *)
(***************************************************************************)
EXTENDS Integers, Sequences, FiniteSets, TLC

\* ---------------------------------------------------------------- bounds
\* Calendar dates of the model are the days 0 .. MaxDay.
MaxDay == 2
\* Direct calls of download_data_for_date made by one caller.
MaxCalls == 1
\* Temporary directories whose removal may fail in one behaviour.
MaxTmp == 1

\* ------------------------------------------------------------- constants
\* date(1940, 1, 1), the default start_date and the fallback start.
Epoch == 1
\* timedelta(days=5) subtracted from the current UTC date.
LagDays == 5

\* Python's None for a date-valued name, and an argument left out of a call.
None == -1
Omitted == -2

Days == 0 .. MaxDay
\* Values of datetime.now(timezone.utc).date(): two consecutive days.
Todays == {Epoch + LagDays, Epoch + LagDays + 1}

\* --------------------------------------------------------- strings, names
\* A file-name stem is a record [kind, val]: a date written YYYY-MM-DD (kind
\* "ymd"), a date written without the zero padding, 1940-1-1 ("ymd_short"),
\* or a text that is no date ("text").

\* target_date.strftime('%Y-%m-%d')
strftime(d) == [kind |-> "ymd", val |-> d]

\* datetime.strptime(stem, "%Y-%m-%d").date(); None stands for ValueError.
\* strptime accepts the digits with or without the zero padding.
strptime(stem) ==
    IF stem.kind \in {"ymd", "ymd_short"} THEN stem.val ELSE None

\* os.path.join(self.data_dir, f"{target_date.strftime('%Y-%m-%d')}.nc")
FinalName(d) == [stem |-> strftime(d), ext |-> "nc"]
\* mkdtemp(prefix="era5_download_", dir=self.data_dir): the n-th fresh name.
TmpName(n) == [stem |-> [kind |-> "text", val |-> n], ext |-> ""]
\* Files the pipeline did not write: notes.txt and 1940-1-1.nc.
NotesName == [stem |-> [kind |-> "text", val |-> 0], ext |-> "txt"]
ShortName == [stem |-> [kind |-> "ymd_short", val |-> Epoch], ext |-> "nc"]

FinalNames == {FinalName(d) : d \in Days}
TmpNames == {TmpName(n) : n \in 1 .. MaxTmp}
Names == FinalNames \cup TmpNames \cup {NotesName, ShortName}

\* Directory entries.  data 0 is a file that was there before the pipeline
\* ran; data n > 0 is what the n-th retrieve call delivered.
Absent == [kind |-> "absent", data |-> 0]
Directory == [kind |-> "dir", data |-> 0]
File(c) == [kind |-> "file", data |-> c]

\* What download_data_for_date returns: None is <<>>, a path is <<name>>.
NoFile == <<>>
Path(name) == <<name>>

VARIABLES
    redownload,                 \* self.redownload
    debug,                      \* self.debug
    data_dir,                   \* contents of self.data_dir
    utc_today,                  \* the UTC date the clock gave the run (a second
                                \* run in succession falls on the same day)
    pc,                         \* position of the caller / of the run
    args,                       \* what the caller passed to the run
    start_date, end_date, fixed_date,   \* parameters / locals of the run
    current_date,               \* loop variable of the run
    already_downloaded_dates,   \* computed once per run
    error,                      \* exception that ended the run, or "none"
    log,                        \* calls made in the current run or by the caller:
                                \* <<operation, date>>
    last,                       \* the last download_data_for_date call
    nretrieve,                  \* client.retrieve calls made so far
    dir0,                       \* data_dir when the current run listed it
    run,                        \* runs started
    calls                       \* direct download calls made

vars == <<redownload, debug, data_dir, utc_today, pc, args, start_date, end_date,
          fixed_date, current_date, already_downloaded_dates, error, log, last,
          nretrieve, dir0, run, calls>>

\* ------------------------------------------------- download configuration
\* A config value: a missing key, None, a string, or a list of a given length.
Missing == [type |-> "missing", len |-> 0]
PyNone == [type |-> "none", len |-> 0]
PyStr == [type |-> "str", len |-> 3]
PyList(n) == [type |-> "list", len |-> n]

\* Python truthiness of a config value.
Truthy(v) == v.type \in {"str", "list"} /\ v.len > 0

\* isinstance(v, list) and len(v) == 0 fails the check / the list checks.
NonEmptyList(v) == v.type = "list" /\ v.len # 0

_get_default_download_config ==
    [variable |-> PyList(2), pressure_level |-> PyList(5), time |-> PyList(4),
     area |-> PyList(4)]

\* The area after line 204-205: a missing or falsy area becomes the default.
AreaOrDefault(config) ==
    IF ~ Truthy(config.area) THEN PyList(4) ELSE config.area

\* _validate_download_config: TRUE when it returns, FALSE when it raises
\* ValueError.
_validate_download_config(config) ==
    /\ config.variable.type # "missing"
    /\ config.pressure_level.type # "missing"
    /\ config.time.type # "missing"
    /\ NonEmptyList(config.variable)
    /\ NonEmptyList(config.pressure_level)
    /\ NonEmptyList(config.time)
    /\ AreaOrDefault(config).type = "list"
    /\ AreaOrDefault(config).len = 4

\* The configs a caller passes: the default and its one-field changes.
ListValues == {Missing, PyStr, PyList(0), PyList(1)}
AreaValues == {Missing, PyNone, PyStr, PyList(0), PyList(3), PyList(4)}
Configs ==
    {_get_default_download_config}
    \cup {[_get_default_download_config EXCEPT !.variable = v] : v \in ListValues}
    \cup {[_get_default_download_config EXCEPT !.pressure_level = v] : v \in ListValues}
    \cup {[_get_default_download_config EXCEPT !.time = v] : v \in ListValues}
    \cup {[_get_default_download_config EXCEPT !.area = v] : v \in AreaValues}

\* config=None of download_data_for_date.
NoConfig == [variable |-> PyNone, pressure_level |-> PyNone, time |-> PyNone,
             area |-> PyNone]

\* ------------------------------------------------------- date resolution
\* Python truthiness of a date-valued name: a date is truthy, None is not.
Given(x) == x # None

\* The two assert statements of process_and_archive_daily_data.
ArgsAccepted(s, e, f) ==
    /\ (Given(s) \/ Given(e) \/ Given(f))
    /\ ~ (Given(e) /\ Given(f))

\* Variant of _get_start_and_end_dates that forgets the five days of lag.
_get_start_and_end_dates_NoLag(s, e, f, today) ==
    IF Given(f) THEN <<f, f>>
    ELSE IF Given(s) /\ Given(e) THEN <<s, e>>
    ELSE IF Given(s) /\ ~ Given(e) THEN <<s, today>>
    ELSE IF Given(e) /\ ~ Given(s) THEN <<Epoch, e>>
    ELSE <<>>

\* _get_start_and_end_dates; <<>> is the fall-through return of None.
_get_start_and_end_dates(s, e, f, today) ==
    LET latest_available_date == today - LagDays IN
    IF Given(f) THEN <<f, f>>
    ELSE IF Given(s) /\ Given(e) THEN <<s, e>>
    ELSE IF Given(s) /\ ~ Given(e) THEN <<s, latest_available_date>>
    ELSE IF Given(e) /\ ~ Given(s) THEN <<Epoch, e>>
    ELSE <<>>

\* Variant of _get_already_downloaded_dates that only takes <date>.nc files
\* with the zero-padded stem.
_get_already_downloaded_dates_Strict(dir) ==
    {n.stem.val : n \in {m \in FinalNames : dir[m].kind = "file"}}

\* _get_already_downloaded_dates: the dates parsed from the stems of the
\* regular files of the directory (membership is all the run uses).
_get_already_downloaded_dates(dir) ==
    {strptime(n.stem) : n \in {m \in Names : dir[m].kind = "file"}} \ {None}

\* ------------------------------------------------------------- the run
\* Variant of the loop test that stops one day early.
LoopCond_Exclusive(cur, end) == cur < end

\* while current_date <= end_date
LoopCond(cur, end) == cur <= end

\* Variants of the skip test: one ignores the redownload flag, one never skips.
SkipDate_IgnoresFlag(cur, downloaded, redl) == cur \in downloaded
SkipDate_Never(cur, downloaded, redl) == FALSE

\* if current_date in already_downloaded_dates and not self.redownload
SkipDate(cur, downloaded, redl) == cur \in downloaded /\ ~ redl

\* Variant of the increment that steps two days.
NextDate_TwoDays(cur) == cur + 2

\* current_date += timedelta(days=1)
NextDate(cur) == cur + 1

\* Binding of the parameters: start_date defaults to date(1940, 1, 1), the
\* other two to None.
BindStart(a) == IF a = Omitted THEN Epoch ELSE a
BindOther(a) == IF a = Omitted THEN None ELSE a

ArgValues == Days \cup {Omitted}
NoArgs == [start_date |-> None, end_date |-> None, fixed_date |-> None]

\* A caller invokes process_and_archive_daily_data(...).
Call ==
    /\ pc = "idle"
    /\ run = 0
    /\ \E s \in ArgValues \cup {None}, e \in ArgValues, f \in ArgValues :
        /\ args' = [start_date |-> s, end_date |-> e, fixed_date |-> f]
        /\ start_date' = BindStart(s)
        /\ end_date' = BindOther(e)
        /\ fixed_date' = BindOther(f)
    /\ pc' = "entry"
    /\ run' = run + 1
    /\ log' = <<>>
    /\ UNCHANGED <<redownload, debug, data_dir, utc_today, current_date,
                   already_downloaded_dates, error, last, nretrieve, dir0, calls>>

\* Lines 32-38: the asserts, the resolution, the listing of the directory.
Resolve ==
    /\ pc = "entry"
    /\ IF ~ ArgsAccepted(start_date, end_date, fixed_date)
       THEN /\ pc' = "error"
            /\ error' = "AssertionError"
            /\ UNCHANGED <<start_date, end_date, current_date,
                           already_downloaded_dates, dir0, utc_today>>
       ELSE \E today \in Todays :
            LET r == _get_start_and_end_dates(start_date, end_date, fixed_date,
                                              today) IN
            /\ utc_today # None => today = utc_today
            /\ utc_today' = today
            /\ IF r = <<>>
               THEN /\ pc' = "error"
                    /\ error' = "TypeError"
                    /\ UNCHANGED <<start_date, end_date, current_date,
                                   already_downloaded_dates, dir0>>
               ELSE /\ start_date' = r[1]
                    /\ end_date' = r[2]
                    /\ already_downloaded_dates' =
                           _get_already_downloaded_dates(data_dir)
                    /\ dir0' = data_dir
                    /\ current_date' = r[1]
                    /\ pc' = "loop"
                    /\ UNCHANGED error
    /\ UNCHANGED <<redownload, debug, data_dir, args, fixed_date, log,
                   last, nretrieve, run, calls>>

\* Lines 39-43: the loop test and the skip branch.
Loop ==
    /\ pc = "loop"
    /\ IF LoopCond(current_date, end_date)
       THEN IF SkipDate(current_date, already_downloaded_dates, redownload)
            THEN /\ log' = Append(log, <<"skip", current_date>>)
                 /\ current_date' = NextDate(current_date)
                 /\ pc' = "loop"
            ELSE /\ pc' = "download"
                 /\ UNCHANGED <<log, current_date>>
       ELSE /\ pc' = "done"
            /\ UNCHANGED <<log, current_date>>
    /\ UNCHANGED <<redownload, debug, data_dir, utc_today, args, start_date,
                   end_date, fixed_date, already_downloaded_dates, error, last,
                   nretrieve, dir0, run, calls>>

\* --------------------------------------------------- download_data_for_date
\* What client.retrieve did: raised, returned without writing the file,
\* returned having written an empty file, returned having written data.
RetrieveOutcomes == {"raise", "missing", "empty", "data"}

\* Variant of the verification that does not look at the file size.
FileVerified_NoSizeCheck(outcome) == outcome # "missing"

\* Lines 133-140: os.path.exists(output_file) and file_size != 0.
FileVerified(outcome) == outcome # "missing" /\ outcome # "empty"

\* Lines 126-154: TRUE when the try block reaches shutil.move.
Delivered(outcome) == outcome # "raise" /\ FileVerified(outcome)

\* The fresh temporary directory name mkdtemp picks.
FreshTmp(dir) ==
    TmpName(1 + Cardinality({n \in TmpNames : dir[n].kind # "absent"}))

\* Variant of the cleanup that never removes the temporary directory.
Cleanup_Never(dir, tmp, removed) == [dir EXCEPT ![tmp] = Directory]

\* Lines 156-164: the directory after the finally block; removed says whether
\* shutil.rmtree succeeded.
Cleanup(dir, tmp, removed) ==
    IF removed THEN dir ELSE [dir EXCEPT ![tmp] = Directory]

\* Variant of the debug short cut that is never taken.
DebugReturn_Never(dbg) == FALSE

\* Line 93: the debug short cut.
DebugReturn(dbg) == dbg

download_data_for_date(target_date, config) ==
    IF DebugReturn(debug)
    THEN /\ log' = Append(log, <<"download", target_date>>)
         /\ last' = [date |-> target_date, outcome |-> "debug", removed |-> TRUE,
                     ret |-> NoFile]
         /\ UNCHANGED <<data_dir, nretrieve>>
    ELSE LET cfg == IF config = NoConfig THEN _get_default_download_config
                    ELSE config IN
         IF ~ _validate_download_config(cfg)
         THEN /\ log' = Append(log, <<"download", target_date>>)
              /\ last' = [date |-> target_date, outcome |-> "invalid",
                          removed |-> TRUE, ret |-> NoFile]
              /\ UNCHANGED <<data_dir, nretrieve>>
         ELSE \E outcome \in RetrieveOutcomes, removed \in BOOLEAN :
              LET tmp == FreshTmp(data_dir)
                  moved == IF Delivered(outcome)
                           THEN [data_dir EXCEPT ![FinalName(target_date)] =
                                                    File(nretrieve + 1)]
                           ELSE data_dir
              IN
              /\ removed \/ tmp \in Names
              /\ nretrieve' = nretrieve + 1
              /\ log' = log \o <<<<"download", target_date>>,
                                 <<"retrieve", target_date>>>>
              /\ data_dir' = Cleanup(moved, tmp, removed)
              /\ last' = [date |-> target_date, outcome |-> outcome,
                          removed |-> removed,
                          ret |-> IF Delivered(outcome)
                                  THEN Path(FinalName(target_date))
                                  ELSE NoFile]

\* Line 44: self.download_data_for_date(current_date)
RunDownload ==
    /\ pc = "download"
    /\ download_data_for_date(current_date, NoConfig)
    /\ pc' = "process"
    /\ UNCHANGED <<redownload, debug, utc_today, args, start_date, end_date,
                   fixed_date, current_date, already_downloaded_dates, error,
                   dir0, run, calls>>

\* Line 45 and process_data_for_date.
process_data_for_date ==
    /\ pc = "process"
    /\ log' = Append(log, <<"process", current_date>>)
    /\ pc' = "archive"
    /\ UNCHANGED <<redownload, debug, data_dir, utc_today, args, start_date,
                   end_date, fixed_date, current_date, already_downloaded_dates,
                   error, last, nretrieve, dir0, run, calls>>

\* Lines 46-47 and archive_data_for_date.
archive_data_for_date ==
    /\ pc = "archive"
    /\ log' = Append(log, <<"archive", current_date>>)
    /\ current_date' = NextDate(current_date)
    /\ pc' = "loop"
    /\ UNCHANGED <<redownload, debug, data_dir, utc_today, args, start_date,
                   end_date, fixed_date, already_downloaded_dates, error, last,
                   nretrieve, dir0, run, calls>>

\* A caller invokes download_data_for_date(target_date, config) itself.
CallDownload ==
    /\ pc \in {"idle", "direct"}
    /\ calls < MaxCalls
    /\ \E d \in Days, c \in Configs \cup {NoConfig} : download_data_for_date(d, c)
    /\ calls' = calls + 1
    /\ pc' = "direct"
    /\ UNCHANGED <<redownload, debug, utc_today, args, start_date, end_date,
                   fixed_date, current_date, already_downloaded_dates, error,
                   dir0, run>>

\* The caller runs the range downloader a second time, with the same
\* arguments, on the same pipeline object.
Rerun ==
    /\ pc = "done"
    /\ run = 1
    /\ start_date' = BindStart(args.start_date)
    /\ end_date' = BindOther(args.end_date)
    /\ fixed_date' = BindOther(args.fixed_date)
    /\ pc' = "entry"
    /\ run' = run + 1
    /\ log' = <<>>
    /\ UNCHANGED <<redownload, debug, data_dir, utc_today, args, current_date,
                   already_downloaded_dates, error, last, nretrieve, dir0, calls>>

\* ------------------------------------------------------- specifications
\* The state after construction (__init__): the flags, an existing output
\* directory that may hold files of earlier runs, notes.txt and 1940-1-1.nc.
InitDirs ==
    {d \in [Names -> {Absent, File(0)}] : \A n \in TmpNames : d[n] = Absent}

Init ==
    /\ redownload \in BOOLEAN
    /\ debug \in BOOLEAN
    /\ data_dir \in InitDirs
    /\ utc_today = None
    /\ pc = "idle"
    /\ args = NoArgs
    /\ start_date = None
    /\ end_date = None
    /\ fixed_date = None
    /\ current_date = None
    /\ already_downloaded_dates = {}
    /\ error = "none"
    /\ log = <<>>
    /\ last = [date |-> None, outcome |-> "none", removed |-> TRUE, ret |-> NoFile]
    /\ nretrieve = 0
    /\ dir0 = data_dir
    /\ run = 0
    /\ calls = 0

Next ==
    \/ Call
    \/ Resolve
    \/ Loop
    \/ RunDownload
    \/ process_data_for_date
    \/ archive_data_for_date
    \/ CallDownload

Spec == Init /\ [][Next]_vars

\* Two runs in succession with redownload disabled.
InitTwice == Init /\ ~ redownload

NextTwice ==
    \/ Call
    \/ Resolve
    \/ Loop
    \/ RunDownload
    \/ process_data_for_date
    \/ archive_data_for_date
    \/ Rerun

TwiceSpec == InitTwice /\ [][NextTwice]_vars

\* The program keeps executing: a step that can be taken is taken.
FairSpec == Init /\ [][Next]_vars /\ WF_vars(Next)

\* ------------------------------------------------------------ properties
\* Positions of a run whose arguments were accepted.
Running == {"loop", "download", "process", "archive", "done"}

\* The dates the loop of the run has visited (skipped or handled), in order.
Visited ==
    LET v == SelectSeq(log, LAMBDA e : e[1] \in {"skip", "download"})
    IN [i \in 1 .. Len(v) |-> v[i][2]]

\* The calendar dates start_date .. end_date in ascending order.
Interval == [i \in 1 .. (end_date - start_date + 1) |-> start_date + i - 1]

\* The calls of the run without the retrieve calls made inside download.
RunLog ==
    LET v == SelectSeq(log, LAMBDA e : e[1] # "retrieve")
    IN [i \in 1 .. Len(v) |-> v[i]]

\* The dates for which the log holds a call of the operation op.
Called(op) == {log[i][2] : i \in {j \in 1 .. Len(log) : log[j][1] = op}}

\* How many calls of op for date d the log holds.
Count(op, d) == Cardinality({i \in 1 .. Len(log) : log[i][1] = op /\ log[i][2] = d})

\* C1: for a resolved pair with start <= end the run visits exactly the
\* dates start .. end, ascending, each once, and then terminates.
C1_VisitsInterval ==
    (pc = "loop" /\ log = <<>> /\ start_date <= end_date)
        ~> (pc = "done" /\ Visited = Interval)

\* A finished run over three or more dates, some skipped and some handled.
C1_Witness ==
    /\ pc = "done"
    /\ end_date - start_date >= 2
    /\ Visited = Interval
    /\ Called("skip") # {}
    /\ Called("archive") # {}

\* An argument the caller passed a date for.
Supplied(a) == a # Omitted /\ a # None

\* C2: the resolved pair follows the stated rule, and every input that
\* passes the argument checks resolves to a pair.
C2_Resolution ==
    LET s == args.start_date
        e == args.end_date
        f == args.fixed_date
    IN
    /\ error # "TypeError"
    /\ pc \in Running =>
        /\ (Supplied(f) /\ ~ Supplied(e)) =>
              /\ start_date = f
              /\ end_date = f
              /\ pc = "done" => Called("skip") \cup Called("download") = {f}
        /\ (Supplied(s) /\ Supplied(e) /\ ~ Supplied(f)) =>
              (start_date = s /\ end_date = e)
        /\ (Supplied(s) /\ ~ Supplied(e) /\ ~ Supplied(f)) =>
              (start_date = s /\ end_date = utc_today - 5)
        /\ (~ Supplied(s) /\ Supplied(e) /\ ~ Supplied(f)) =>
              (start_date = Epoch /\ end_date = e)

\* A finished run for which only start_date was supplied.
C2_Witness ==
    /\ pc = "done"
    /\ Supplied(args.start_date)
    /\ ~ Supplied(args.end_date)
    /\ ~ Supplied(args.fixed_date)
    /\ end_date = utc_today - 5
    /\ start_date < end_date

\* C3: a run given none of the three dates, or both end_date and
\* fixed_date, fails before the directory is listed and before any download,
\* process or archive call.
C3_RejectsBadArguments ==
    LET none == /\ ~ Supplied(args.start_date)
                /\ ~ Supplied(args.end_date)
                /\ ~ Supplied(args.fixed_date)
        both == Supplied(args.end_date) /\ Supplied(args.fixed_date)
    IN (run > 0 /\ pc # "entry" /\ (none \/ both)) =>
          (pc = "error" /\ error = "AssertionError" /\ log = <<>>)

\* The directory holds a regular file whose stem reads as the date d.
HasFile(dir, d) ==
    \E n \in Names : /\ dir[n].kind = "file"
                     /\ n.stem.kind \in {"ymd", "ymd_short"}
                     /\ n.stem.val = d

FailedOutcomes == {"invalid", "raise", "missing", "empty"}

\* Only a rejected argument list ends a run, and before any call.
OnlyArgumentsAbort ==
    pc = "error" =>
        /\ error = "AssertionError"
        /\ log = <<>>
        /\ \/ (start_date = None /\ end_date = None /\ fixed_date = None)
           \/ (end_date # None /\ fixed_date # None)

\* A finished run has skipped or fully handled every date of its range.
EveryDateHandled ==
    pc = "done" =>
        \A d \in start_date .. end_date : Count("skip", d) + Count("archive", d) = 1

\* C5 as stated: every failure of a download, a failed removal of the
\* temporary directory included, makes the download return no file, never
\* ends the run, and the loop handles every remaining date.
C5_FailureContained ==
    /\ (last.outcome \in FailedOutcomes \/ ~ last.removed) => last.ret = NoFile
    /\ OnlyArgumentsAbort
    /\ EveryDateHandled

\* C5 amended: the download returns no file for every failure but a failed
\* removal of the temporary directory, which leaves its result as it is.
C5_FailureContainedAmended ==
    /\ last.outcome \in FailedOutcomes => last.ret = NoFile
    /\ (last.outcome \notin FailedOutcomes /\ last.outcome # "debug"
        /\ last.outcome # "none") => last.ret = Path(FinalName(last.date))
    /\ OnlyArgumentsAbort
    /\ EveryDateHandled

\* A finished run over two or more dates whose first download failed (no
\* file came of its one retrieve call), left a temporary directory behind,
\* and was followed by the handling of the last date.
C5_Witness ==
    /\ pc = "done"
    /\ ~ debug
    /\ start_date < end_date
    /\ Count("retrieve", start_date) = 1
    /\ data_dir[FinalName(start_date)] = Absent
    /\ data_dir[TmpName(1)].kind = "dir"
    /\ Count("archive", end_date) = 1

\* The temporary directories the output directory holds.
TmpDirs(dir) == {n \in TmpNames : dir[n].kind # "absent"}

\* A step that is one call of download_data_for_date.
IsDownloadStep ==
    /\ Len(log') > Len(log)
    /\ log'[Len(log) + 1][1] = "download"

\* C6 as stated: whatever happened, the output directory holds no temporary
\* directory once a download has returned.
C6_NoTemporaryDirectory == TmpDirs(data_dir) = {}

\* C6 amended: a download leaves the temporary directories of the output
\* directory as they were, unless the removal of its own one failed; then
\* that one directory stays.
C6_TemporaryDirectoryScoped ==
    [][IsDownloadStep =>
         IF last'.removed
         THEN TmpDirs(data_dir') = TmpDirs(data_dir)
         ELSE /\ TmpDirs(data_dir) \subseteq TmpDirs(data_dir')
              /\ Cardinality(TmpDirs(data_dir')) = Cardinality(TmpDirs(data_dir)) + 1
      ]_vars

\* A download whose retrieve call raised and whose temporary directory is gone.
C6_Witness ==
    /\ last.outcome = "raise"
    /\ last.removed
    /\ nretrieve = 1
    /\ TmpDirs(data_dir) = {}

\* C7: a download puts a file at <date>.nc and returns that path exactly
\* when retrieve returned and left a non-empty file; otherwise it returns no
\* file, has called retrieve at most once, and <date>.nc is as before.
C7_PostConditionGate ==
    [][IsDownloadStep =>
         LET d == last'.date
             retrieved == nretrieve' # nretrieve
             good == retrieved /\ last'.outcome = "data"
         IN
         /\ nretrieve' - nretrieve \in {0, 1}
         /\ good => /\ last'.ret = Path(FinalName(d))
                    /\ data_dir'[FinalName(d)] = File(nretrieve')
         /\ ~ good => /\ last'.ret = NoFile
                      /\ data_dir'[FinalName(d)] = data_dir[FinalName(d)]
      ]_vars

\* A download over an existing file whose retrieve call left an empty file.
C7_Witness ==
    /\ last.outcome = "empty"
    /\ last.ret = NoFile
    /\ nretrieve = 1
    /\ data_dir[FinalName(last.date)] = File(0)

\* C8 as stated: with redownload set (and debug not), every date of the
\* range that has a file is attempted again and its <date>.nc is overwritten.
C8_Redownload ==
    (pc = "done" /\ redownload /\ ~ debug) =>
        \A d \in (start_date .. end_date) \cap already_downloaded_dates :
            /\ Count("retrieve", d) = 1
            /\ data_dir[FinalName(d)].kind = "file"
            /\ data_dir[FinalName(d)].data > 0

\* C8 amended: every such date is attempted again (one retrieve call), and
\* its <date>.nc is overwritten when that download succeeds; when it fails
\* <date>.nc is left as it was.
C8_RedownloadAmended ==
    /\ []((pc = "done" /\ redownload /\ ~ debug) =>
            \A d \in (start_date .. end_date) \cap already_downloaded_dates :
                Count("retrieve", d) = 1)
    /\ [][(/\ IsDownloadStep
           /\ pc = "download"
           /\ redownload
           /\ ~ debug
           /\ current_date \in already_downloaded_dates) =>
             IF last'.outcome = "data"
             THEN /\ data_dir'[FinalName(current_date)].kind = "file"
                  /\ data_dir'[FinalName(current_date)].data > 0
                  /\ data_dir'[FinalName(current_date)] # data_dir[FinalName(current_date)]
             ELSE data_dir'[FinalName(current_date)] = data_dir[FinalName(current_date)]
        ]_vars

\* A finished redownload run over two present dates, one overwritten and
\* one whose download failed.
C8_Witness ==
    /\ pc = "done"
    /\ redownload
    /\ ~ debug
    /\ \E d1, d2 \in (start_date .. end_date) \cap already_downloaded_dates :
        /\ dir0[FinalName(d1)] = File(0)
        /\ dir0[FinalName(d2)] = File(0)
        /\ data_dir[FinalName(d1)].data > 0
        /\ data_dir[FinalName(d2)] = File(0)

\* C9: in debug mode a download calls retrieve never, returns no file and
\* leaves the output directory as it is; a run on an empty directory calls
\* process and archive once for every date of its range.
C9_DebugMode ==
    debug =>
        /\ nretrieve = 0
        /\ Called("retrieve") = {}
        /\ last.ret = NoFile
        /\ data_dir = dir0
        /\ (pc = "done" /\ \A n \in Names : dir0[n] = Absent) =>
              /\ \A d \in start_date .. end_date :
                    /\ Count("download", d) = 1
                    /\ Count("process", d) = 1
                    /\ Count("archive", d) = 1
              /\ \A n \in Names : data_dir[n] = Absent

\* A finished debug run over three or more dates on an empty directory.
C9_Witness ==
    /\ debug
    /\ pc = "done"
    /\ \A n \in Names : dir0[n] = Absent
    /\ end_date - start_date >= 2
    /\ Count("archive", end_date) = 1

\* The calls the protocol prescribes from date d to the end of the range.
RECURSIVE ExpectedFrom(_)
ExpectedFrom(d) ==
    IF d > end_date THEN <<>>
    ELSE (IF d \in already_downloaded_dates /\ ~ redownload
          THEN <<<<"skip", d>>>>
          ELSE <<<<"download", d>>, <<"process", d>>, <<"archive", d>>>>)
         \o ExpectedFrom(d + 1)

\* C10: a date of the downloaded-date set is skipped unless redownload is
\* set; every other date gets download, process, archive, once each and in
\* that order, all three before anything is done for the next date.
C10_PerDateProtocol ==
    pc \in Running =>
        LET expected == ExpectedFrom(start_date) IN
        /\ Len(RunLog) <= Len(expected)
        /\ \A i \in 1 .. Len(RunLog) : RunLog[i] = expected[i]
        /\ pc = "done" => RunLog = expected

\* A finished run that skipped a date and handled another whose download
\* returned no file.
C10_Witness ==
    /\ pc = "done"
    /\ Called("skip") # {}
    /\ ~ debug
    /\ last.ret = NoFile
    /\ Count("archive", last.date) = 1

====
